---- MODULE Spec2Model ----
(***************************************************************************)
(* A model of FNNDSC/outwright: the Outlook authenticator                  *)
(* (src/src/outlook_authentication.py) and the Outlook email sender        *)
(* (src/src/outlook_email_sender.py).                                      *)
(*                                                                         *)
(* Three specifications share the variables:                               *)
(*   Spec        the two entry points, authenticate() and async_main(),    *)
(*               from their first statement to the end of the process;     *)
(*   SpecListen  listen_for_email_requests(context, triggerFile) from its  *)
(*               first statement, with the file system shared with an      *)
(*               external process;                                         *)
(*   SpecSend    send_email(context, email_details) from its first         *)
(*               statement to its return.                                  *)
(*                                                                         *)
(* Text is a sequence of one-character strings.  A Playwright call ends in *)
(* one of three ways: it completes ("ok"), it raises PlaywrightTimeoutError *)
(* ("timeout"), or it raises another Exception ("error").  An external     *)
(* interrupt cancels the running task: asyncio.CancelledError, which is a  *)
(* BaseException and therefore passes every `except Exception`, is raised  *)
(* at the await the task is suspended on.                                  *)
(***************************************************************************)
EXTENDS Integers, Sequences, FiniteSets, TLC

VARIABLES
    entry,          \* the function the run started in
    pc,             \* the statement about to be executed
    exc,            \* the exception propagating, or the one the run ended with
    interruptAt,    \* the statement an external interrupt arrived at, or "none"
    config,         \* OutlookConfig, or NoConfig before it is built
    handles,        \* the caller's playwright, browser, context variables
    live,           \* the state of the three resources themselves
    closeLog,       \* the close calls made, in order
    hasPage,        \* context.pages is not empty
    authenticated,  \* the value authenticate_outlook returned, or "unset"
    trace,          \* the UI calls that returned or raised, in this run of
                    \* authenticate_outlook or in this poll iteration
    triggerFile,    \* the content of the trigger file, or NoFile
    bodyContent,    \* the content of the file at BodyPath, or NoFile
    lines,          \* what readlines() returned in this iteration
    email_details,  \* EmailDetails, or NoDetails
    i,              \* the index of the recipient loop (from 1)
    email_sent,     \* the value send_email returned, or "unset"
    extLeft,        \* the writes the external process may still make
    hist            \* what happened in this poll iteration (history)

vars == <<entry, pc, exc, interruptAt, config, handles, live, closeLog, hasPage,
          authenticated, trace, triggerFile, bodyContent, lines, email_details,
          i, email_sent, extLeft, hist>>

procVars == <<config, handles, live, closeLog, authenticated>>
loopVars == <<triggerFile, bodyContent, lines, email_details, i, email_sent,
              extLeft, hist>>

-----------------------------------------------------------------------------
(* Bounds *)

\* the longest recipient string send_email is given in SpecSend
MaxLen == 3
\* the most lines a trigger file holds
MaxLines == 4
\* the writes (create, replace, remove) the external process makes
MaxExt == 2

-----------------------------------------------------------------------------
(* Text *)

NL == "\n"
Whitespace == {" ", NL}

RECURSIVE lstrip(_)
lstrip(s) ==
    IF s # <<>> /\ Head(s) \in Whitespace THEN lstrip(Tail(s)) ELSE s

RECURSIVE rstrip(_)
rstrip(s) ==
    IF s # <<>> /\ s[Len(s)] \in Whitespace
    THEN rstrip(SubSeq(s, 1, Len(s) - 1))
    ELSE s

\* str.strip()
strip(s) == rstrip(lstrip(s))

\* the place of the first c in s, or 0
IndexOf(s, c) ==
    IF \E k \in 1..Len(s) : s[k] = c
    THEN CHOOSE k \in 1..Len(s) : s[k] = c /\ \A j \in 1..(k - 1) : s[j] # c
    ELSE 0

\* str.split(sep): the pieces between the separators, at least one
RECURSIVE split(_, _)
split(s, sep) ==
    LET k == IndexOf(s, sep)
    IN  IF k = 0
        THEN <<s>>
        ELSE <<SubSeq(s, 1, k - 1)>> \o split(SubSeq(s, k + 1, Len(s)), sep)

\* file.readlines(): the lines, each with its newline
RECURSIVE readlines(_)
readlines(s) ==
    LET k == IndexOf(s, NL)
    IN  IF s = <<>> THEN <<>>
        ELSE IF k = 0 THEN <<s>>
        ELSE <<SubSeq(s, 1, k)>> \o readlines(SubSeq(s, k + 1, Len(s)))

\* all texts over alphabet A of length at most n
RECURSIVE Texts(_, _)
Texts(A, n) ==
    IF n = 0 THEN {<<>>}
    ELSE LET shorter == Texts(A, n - 1)
         IN  shorter \cup {Append(t, c) : t \in shorter, c \in A}

-----------------------------------------------------------------------------
(* Values *)

NoConfig == "NoConfig"
\* an absent file: a value no content equals
NoFile == <<"absent">>
NoDetails == [recipient |-> <<>>, subject |-> <<>>, body_file |-> <<>>]
Unset == "unset"

\* how a Playwright call ends when it is not cancelled
Outcomes == {"ok", "timeout", "error"}

\* a UI call: what is done, on which selector, with which text
Ui(act, sel, arg) == [act |-> act, sel |-> sel, arg |-> arg]

\* a UI call and how it ended
Done(call, o) == [act |-> call.act, sel |-> call.sel, arg |-> call.arg, out |-> o]

\* the call of a trace entry
Call(e) == [act |-> e.act, sel |-> e.sel, arg |-> e.arg]

NoHandles == [playwright |-> "None", browser |-> "None", context |-> "None"]
NoResources == [playwright |-> "none", browser |-> "none", context |-> "none"]

\* the history of a poll iteration: the file at the is_file() check, whether
\* the external process wrote since, how the iteration ended, and whether the
\* last request was sent and removed with no request written since
NoHist == [atCheck |-> NoFile, ext |-> FALSE, outcome |-> "none",
           processed |-> FALSE]

\* the command lines: --email, --password and (authenticator) --username
Emails == {<<"e">>}
Passwords == {<<"w">>}
Usernames == {<<>>, <<"u">>}

-----------------------------------------------------------------------------
(* outlook_authentication.py *)

\* OutlookConfig(**kw): email, password and username have no default
OutlookConfigRequired == {"email", "password", "username"}

\* the dataclass constructor raises TypeError when a required field is missing
OutlookConfigRaises(kw) == ~(OutlookConfigRequired \subseteq DOMAIN kw)

OutlookConfig(kw) ==
    [email |-> kw.email, password |-> kw.password, username |-> kw.username,
     outlook_url |-> "https://outlook.office.com"]

\* the statements that await, by function
SetupAwaits == {"pw_start", "launch", "new_context"}
AuthAwaits == {"new_page", "goto", "fill_email", "submit_email", "wait_password",
               "fill_password", "submit_password", "wait_stay", "click_stay",
               "wait_mailbox"}
CleanupAwaits == {"close_context", "close_browser", "stop_playwright"}

\* where control goes when setup_browser returns
AfterSetup(e) == IF e = "authenticate" THEN "check_context" ELSE "check_setup"

\* auth_argparse and the OutlookConfig of authenticate()
AuthArgs ==
    /\ entry = "authenticate" /\ pc = "start"
    /\ \E e \in Emails, p \in Passwords, u \in Usernames :
         LET kw == [email |-> e, password |-> p, username |-> u]
         IN  IF OutlookConfigRaises(kw)
             THEN /\ exc' = "TypeError" /\ pc' = "exit" /\ config' = config
             ELSE /\ config' = OutlookConfig(kw) /\ pc' = "pw_start" /\ exc' = exc
    /\ UNCHANGED <<entry, interruptAt, handles, live, closeLog, hasPage,
                   authenticated, trace>>
    /\ UNCHANGED loopVars

\* send_argparse and the OutlookConfig of async_main(): no username is given
SenderArgs ==
    /\ entry = "async_main" /\ pc = "start"
    /\ \E e \in Emails, p \in Passwords :
         LET kw == [email |-> e, password |-> p]
         IN  IF OutlookConfigRaises(kw)
             THEN /\ exc' = "TypeError" /\ pc' = "exit" /\ config' = config
             ELSE /\ config' = OutlookConfig(kw) /\ pc' = "pw_start" /\ exc' = exc
    /\ UNCHANGED <<entry, interruptAt, handles, live, closeLog, hasPage,
                   authenticated, trace>>
    /\ UNCHANGED loopVars

\* setup_browser: one awaited call; on an exception it returns (None, None, None)
SetupCall(here, next, what) ==
    /\ pc = here
    /\ \E o \in {"ok", "error"} :
         IF o = "ok"
         THEN /\ live' = [live EXCEPT ![what] = "open"]
              /\ pc' = next
              /\ handles' = IF next \in SetupAwaits THEN handles
                            ELSE [playwright |-> "obj", browser |-> "obj",
                                  context |-> "obj"]
         ELSE /\ live' = live
              /\ handles' = NoHandles
              /\ pc' = AfterSetup(entry)
    /\ UNCHANGED <<entry, exc, interruptAt, config, closeLog, hasPage,
                   authenticated, trace>>
    /\ UNCHANGED loopVars

SetupPlaywright == SetupCall("pw_start", "launch", "playwright")
SetupLaunch == SetupCall("launch", "new_context", "browser")
SetupContext == SetupCall("new_context", AfterSetup(entry), "context")

\* faulty variant: the result of setup_browser is not tested
NotContextNever(h) == FALSE

\* `not context`: setup_browser returned no context
NotContext(h) == h.context = "None"

\* authenticate(): `if not context: return`, else the call of authenticate_outlook
AuthCheckContext ==
    /\ entry = "authenticate" /\ pc = "check_context"
    /\ pc' = IF NotContext(handles) THEN "finally" ELSE "new_page"
    /\ trace' = <<>>
    /\ UNCHANGED <<entry, exc, interruptAt, config, handles, live, closeLog,
                   hasPage, authenticated>>
    /\ UNCHANGED loopVars

\* authenticate_outlook's `except Exception`: the value returned for a call that
\* raised (timeout or error)
AuthExcept(o) == "False"

\* faulty variant: the inner handler catches every Exception
StayExceptAny(o) == TRUE

\* faulty variant: no inner handler, a timeout of the prompt is a failure
StayExceptNone(o) == FALSE

\* the `except PlaywrightTimeoutError` around the "Stay signed in?" prompt:
\* TRUE when the exception is swallowed and the function goes on
StayExcept(o) == o = "timeout"

\* one awaited Playwright call of authenticate_outlook, in the outer try alone
AuthCall(here, call, next) ==
    /\ pc = here
    /\ \E o \in Outcomes :
         /\ trace' = Append(trace, Done(call, o))
         /\ IF o = "ok"
            THEN /\ pc' = next
                 /\ authenticated' = authenticated
                 /\ hasPage' = (hasPage \/ here = "new_page")
            ELSE /\ pc' = "auth_returned"
                 /\ authenticated' = AuthExcept(o)
                 /\ hasPage' = hasPage
    /\ UNCHANGED <<entry, exc, interruptAt, config, handles, live, closeLog>>
    /\ UNCHANGED loopVars

\* an awaited call inside the inner try
StayCall(here, call, next) ==
    /\ pc = here
    /\ \E o \in Outcomes :
         /\ trace' = Append(trace, Done(call, o))
         /\ IF o = "ok"
            THEN /\ pc' = next
                 /\ authenticated' = authenticated
            ELSE IF StayExcept(o)
            THEN /\ pc' = "wait_mailbox"
                 /\ authenticated' = authenticated
            ELSE /\ pc' = "auth_returned"
                 /\ authenticated' = AuthExcept(o)
    /\ UNCHANGED <<entry, exc, interruptAt, config, handles, live, closeLog,
                   hasPage>>
    /\ UNCHANGED loopVars

\* faulty variant: the test inverted
UsernameBranchInverted(cfg) ==
    IF cfg.username = <<>> THEN "handoff" ELSE "wait_password"

\* `if config.username:` a non-empty username hands the login over to the user
UsernameBranch(cfg) == IF cfg.username # <<>> THEN "handoff" ELSE "wait_password"

NewPage == AuthCall("new_page", Ui("new_page", "", <<>>), "goto")
Goto == AuthCall("goto", Ui("goto", config.outlook_url, <<>>), "fill_email")
FillEmail ==
    AuthCall("fill_email", Ui("fill", "input[type=email]", config.email),
             "submit_email")
SubmitEmail ==
    AuthCall("submit_email", Ui("click", "input[type=submit]", <<>>),
             UsernameBranch(config))

\* LOG("Internal authentication -- please handle the authentication manually")
Handoff ==
    /\ pc = "handoff"
    /\ trace' = Append(trace, Done(Ui("log", "manual authentication", <<>>), "ok"))
    /\ pc' = "wait_mailbox"
    /\ UNCHANGED <<entry, exc, interruptAt, config, handles, live, closeLog,
                   hasPage, authenticated>>
    /\ UNCHANGED loopVars

WaitPassword ==
    AuthCall("wait_password", Ui("wait", "input[type=password]", <<>>),
             "fill_password")
FillPassword ==
    AuthCall("fill_password", Ui("fill", "input[type=password]", config.password),
             "submit_password")
SubmitPassword ==
    AuthCall("submit_password", Ui("click", "input[type=submit]", <<>>),
             "wait_stay")
WaitStay == StayCall("wait_stay", Ui("wait", "#idSIButton9", <<>>), "click_stay")
ClickStay == StayCall("click_stay", Ui("click", "#idSIButton9", <<>>), "wait_mailbox")

\* the wait for the mailbox landmark and `return True`
WaitMailbox ==
    /\ pc = "wait_mailbox"
    /\ \E o \in Outcomes :
         /\ trace' = Append(trace, Done(Ui("wait", "[aria-label=New mail]", <<>>), o))
         /\ authenticated' = IF o = "ok" THEN "True" ELSE AuthExcept(o)
    /\ pc' = "auth_returned"
    /\ UNCHANGED <<entry, exc, interruptAt, config, handles, live, closeLog,
                   hasPage>>
    /\ UNCHANGED loopVars

\* authenticate(): the log line after authenticate_outlook returned
AuthReturned ==
    /\ entry = "authenticate" /\ pc = "auth_returned"
    /\ pc' = "finally"
    /\ UNCHANGED <<entry, exc, interruptAt, config, handles, live, closeLog,
                   hasPage, authenticated, trace>>
    /\ UNCHANGED loopVars

\* faulty variant: the finally block closes nothing
FinallyGuardNever(h) == FALSE

\* authenticate(): `if context and browser and playwright:` of the finally block
FinallyGuard(h) ==
    h.context # "None" /\ h.browser # "None" /\ h.playwright # "None"

Finally ==
    /\ entry = "authenticate" /\ pc = "finally"
    /\ pc' = IF FinallyGuard(handles) THEN "close_context" ELSE "exit"
    /\ UNCHANGED <<entry, exc, interruptAt, config, handles, live, closeLog,
                   hasPage, authenticated, trace>>
    /\ UNCHANGED loopVars

\* one awaited close of the finally block
CloseCall(here, what, next) ==
    /\ pc = here
    /\ live' = [live EXCEPT ![what] = "closed"]
    /\ closeLog' = Append(closeLog, what)
    /\ pc' = next
    /\ UNCHANGED <<entry, exc, interruptAt, config, handles, hasPage,
                   authenticated, trace>>
    /\ UNCHANGED loopVars

\* faulty variant: the browser is closed before its context
CloseOrderSwapped == <<"browser", "context", "playwright">>

\* the order of the three closes
CloseOrder == <<"context", "browser", "playwright">>

CloseContext == CloseCall("close_context", CloseOrder[1], "close_browser")
CloseBrowser == CloseCall("close_browser", CloseOrder[2], "stop_playwright")
StopPlaywright == CloseCall("stop_playwright", CloseOrder[3], "exit")

\* An external interrupt while the task is suspended in an await: CancelledError
\* is raised there.  In setup_browser and inside the finally block no handler or
\* finally is left to run; in authenticate_outlook the finally block of
\* authenticate() runs.
Interrupt ==
    /\ interruptAt = "none"
    /\ pc \in SetupAwaits \cup AuthAwaits \cup CleanupAwaits
    /\ interruptAt' = pc
    /\ exc' = "CancelledError"
    /\ pc' = IF pc \in AuthAwaits THEN "finally" ELSE "exit"
    /\ UNCHANGED <<entry, config, handles, live, closeLog, hasPage,
                   authenticated, trace>>
    /\ UNCHANGED loopVars

-----------------------------------------------------------------------------
(* outlook_email_sender.py *)

\* the one path at which a body file may exist
BodyPath == <<"p">>

\* faulty variant: a missing body file reads as an empty body
OpenBodyLenient(path, content) ==
    IF path = BodyPath /\ content # NoFile THEN content ELSE <<>>

\* open(path, "r") of a body file: its content, or NoFile when nothing is there
OpenBody(path, content) == IF path = BodyPath THEN content ELSE NoFile

\* the awaits of send_email
SendAwaits == {"click_new", "wait_to", "fill_to", "type_comma", "press_space",
               "fill_subject", "press_tab", "type_body", "press_send",
               "wait_sent"}

\* faulty variant: a send that returned is started again at once
AfterSendAgain(e) == "send_start"

\* where control goes when send_email returns
AfterSend(e) == IF e = "listen" THEN "sent" ELSE "done"

\* faulty variant: the existence test always passes
is_fileAlways(f) == TRUE

\* Path.is_file(): whether a regular file is at the trigger path
is_file(f) == f # NoFile

\* `if triggerFile.is_file():`: the start of a poll iteration
IsFile ==
    /\ entry = "listen" /\ pc = "is_file"
    /\ pc' = IF is_file(triggerFile) THEN "read" ELSE "sleep"
    /\ hist' = [hist EXCEPT !.atCheck = triggerFile, !.ext = FALSE,
                            !.outcome = IF is_file(triggerFile) THEN "running"
                                        ELSE "absent"]
    /\ email_sent' = Unset
    /\ trace' = <<>>
    /\ UNCHANGED <<entry, exc, interruptAt, hasPage, triggerFile, bodyContent,
                   lines, email_details, i, extLeft>>
    /\ UNCHANGED procVars

\* lines[0], lines[1], lines[2]: IndexError when the file has fewer lines
ParseRaises(ls) == Len(ls) < 3

\* EmailDetails from the first three lines, each stripped
Parse(ls) ==
    [recipient |-> strip(ls[1]), subject |-> strip(ls[2]),
     body_file |-> strip(ls[3])]

\* faulty variant: no error boundary, the exception leaves the function
LoopExceptEscapes == "raised"

\* the loop's `except Exception`: log, and go on to the sleep
LoopExcept == "sleep"

\* faulty variant: the loop body runs once and the function returns
LoopOnce == "returned"

\* `while True`: after the sleep, the next is_file() check
LoopNext == "is_file"

\* faulty variant: nothing is removed at the trigger path
RemoveNothing(f) == f

\* os.remove(triggerFile): what is left at the path
Remove(f) == NoFile

\* open, readlines and the three lines; FileNotFoundError and IndexError go to
\* the `except Exception` of the loop
ReadTrigger ==
    /\ entry = "listen" /\ pc = "read"
    /\ IF triggerFile = NoFile
       THEN /\ pc' = LoopExcept
            /\ hist' = [hist EXCEPT !.outcome = "open_failed"]
            /\ lines' = lines
            /\ email_details' = email_details
       ELSE /\ lines' = readlines(triggerFile)
            /\ IF ParseRaises(lines')
               THEN /\ pc' = LoopExcept
                    /\ hist' = [hist EXCEPT !.outcome = "parse_failed"]
                    /\ email_details' = email_details
               ELSE /\ pc' = "send_start"
                    /\ hist' = [hist EXCEPT !.outcome = "parsed"]
                    /\ email_details' = Parse(lines')
    /\ UNCHANGED <<entry, exc, interruptAt, hasPage, trace, triggerFile,
                   bodyContent, i, email_sent, extLeft>>
    /\ UNCHANGED procVars

\* send_email's `except Exception`: the value returned for a step that raised
SendExcept(o) == "False"

\* `page = context.pages[0]`: IndexError when the context has no page
SendStart ==
    /\ pc = "send_start"
    /\ i' = 1
    /\ IF hasPage
       THEN /\ pc' = "click_new" /\ email_sent' = Unset
       ELSE /\ pc' = AfterSend(entry) /\ email_sent' = SendExcept("error")
    /\ UNCHANGED <<entry, exc, interruptAt, hasPage, trace, triggerFile,
                   bodyContent, lines, email_details, extLeft, hist>>
    /\ UNCHANGED procVars

\* one awaited Playwright call of send_email
SendCall(here, call, next) ==
    /\ pc = here
    /\ \E o \in Outcomes :
         /\ trace' = Append(trace, Done(call, o))
         /\ IF o = "ok"
            THEN /\ pc' = next /\ email_sent' = email_sent
            ELSE /\ pc' = AfterSend(entry) /\ email_sent' = SendExcept(o)
    /\ UNCHANGED <<entry, exc, interruptAt, hasPage, triggerFile, bodyContent,
                   lines, email_details, extLeft, hist>>
    /\ UNCHANGED procVars

\* recipients = email_details.recipient.split(",")
Recipients(d) == split(d.recipient, ",")

\* faulty variant: the 0-based test applied to the 1-based index
NotLastOffByOne(k, recipients) == k < Len(recipients) - 1

\* `if i < len(recipients) - 1` with i from 0: this is not the last recipient
NotLast(k, recipients) == k < Len(recipients)

\* what follows the fill of recipient k
AfterFill(k, recipients) ==
    IF NotLast(k, recipients) THEN "type_comma" ELSE "fill_subject"

\* the text filled into the To field for recipient k
ToText(k, recipients) == strip(recipients[k])

ClickNew ==
    /\ SendCall("click_new", Ui("click", "[aria-label=New mail]", <<>>), "wait_to")
    /\ i' = i
WaitTo ==
    /\ SendCall("wait_to", Ui("wait", "[aria-label=To]", <<>>), "fill_to")
    /\ i' = i
FillTo ==
    /\ SendCall("fill_to",
                Ui("fill", "[aria-label=To]", ToText(i, Recipients(email_details))),
                AfterFill(i, Recipients(email_details)))
    /\ i' = i
TypeComma ==
    /\ SendCall("type_comma", Ui("type", "keyboard", <<",">>), "press_space")
    /\ i' = i
\* the Space key, and the next turn of the loop
PressSpace ==
    /\ SendCall("press_space", Ui("press", "Space", <<>>), "fill_to")
    /\ i' = IF pc' = "fill_to" THEN i + 1 ELSE i
FillSubject ==
    /\ SendCall("fill_subject",
                Ui("fill", "[placeholder=Add a subject]", strip(email_details.subject)),
                "press_tab")
    /\ i' = i
PressTab ==
    /\ SendCall("press_tab", Ui("press", "Tab", <<>>), "type_body")
    /\ i' = i

\* open(body_file).read().strip() and the typing of the body
TypeBody ==
    /\ pc = "type_body"
    /\ LET content == OpenBody(email_details.body_file, bodyContent)
       IN  IF content = NoFile
           THEN /\ pc' = AfterSend(entry)
                /\ email_sent' = SendExcept("error")
                /\ trace' = trace
           ELSE \E o \in Outcomes :
                  /\ trace' = Append(trace,
                                Done(Ui("type", "keyboard", strip(content)), o))
                  /\ IF o = "ok"
                     THEN /\ pc' = "press_send" /\ email_sent' = email_sent
                     ELSE /\ pc' = AfterSend(entry) /\ email_sent' = SendExcept(o)
    /\ UNCHANGED <<entry, exc, interruptAt, hasPage, triggerFile, bodyContent,
                   lines, email_details, i, extLeft, hist>>
    /\ UNCHANGED procVars

PressSend ==
    /\ SendCall("press_send", Ui("press", "Control+Enter", <<>>), "wait_sent")
    /\ i' = i

\* the wait for the sent landmark and `return True`
WaitSent ==
    /\ pc = "wait_sent"
    /\ \E o \in Outcomes :
         /\ trace' = Append(trace, Done(Ui("wait", "#EmptyState_MainMessage", <<>>), o))
         /\ email_sent' = IF o = "ok" THEN "True" ELSE SendExcept(o)
    /\ pc' = AfterSend(entry)
    /\ UNCHANGED <<entry, exc, interruptAt, hasPage, triggerFile, bodyContent,
                   lines, email_details, i, extLeft, hist>>
    /\ UNCHANGED procVars

\* faulty variant: the file is removed whatever send_email returned
RemoveAfterAny(sent) == sent # Unset

\* `if email_sent:` TRUE when the trigger file is to be removed
RemoveAfter(sent) == sent = "True"

\* os.remove(triggerFile) after a successful send, or the log line after a
\* failed one; FileNotFoundError goes to the `except Exception` of the loop
Sent ==
    /\ entry = "listen" /\ pc = "sent"
    /\ IF RemoveAfter(email_sent)
       THEN IF triggerFile = NoFile
            THEN /\ triggerFile' = triggerFile
                 /\ hist' = [hist EXCEPT !.outcome = "remove_failed"]
                 /\ pc' = LoopExcept
            ELSE /\ triggerFile' = Remove(triggerFile)
                 /\ hist' = [hist EXCEPT !.outcome = "removed",
                                         !.processed = TRUE]
                 /\ pc' = "sleep"
       ELSE /\ triggerFile' = triggerFile
            /\ hist' = [hist EXCEPT !.outcome = "send_failed"]
            /\ pc' = "sleep"
    /\ UNCHANGED <<entry, exc, interruptAt, hasPage, trace, bodyContent, lines,
                   email_details, i, email_sent, extLeft>>
    /\ UNCHANGED procVars

\* await asyncio.sleep(5), then the next turn of `while True`
Sleep ==
    /\ entry = "listen" /\ pc = "sleep"
    /\ pc' = LoopNext
    /\ UNCHANGED <<entry, exc, interruptAt, hasPage, trace>>
    /\ UNCHANGED loopVars
    /\ UNCHANGED procVars

\* An external interrupt while send_email or the sleep is suspended:
\* CancelledError passes both `except Exception` and leaves the function.
Cancel ==
    /\ interruptAt = "none"
    /\ pc \in SendAwaits \cup {"sleep"}
    /\ interruptAt' = pc
    /\ exc' = "CancelledError"
    /\ pc' = "raised"
    /\ UNCHANGED <<entry, hasPage, trace>>
    /\ UNCHANGED loopVars
    /\ UNCHANGED procVars

-----------------------------------------------------------------------------
(* The file system and the external process that writes requests *)

\* the lines a trigger file may hold at place n
RecLines == {<<"a">>, <<" ", "a", ",", " ", "b", " ">>}
SubjLines == {<<"s">>, <<" ", "s", " ">>}
PathLines == {<<" ", "p">>, <<"q">>}
ExtraLines == {<<"x">>}

LineChoices(n) ==
    CASE n = 1 -> RecLines
      [] n = 2 -> SubjLines
      [] n = 3 -> PathLines
      [] OTHER -> ExtraLines

\* the lists of k lines
RECURSIVE LineLists(_)
LineLists(k) ==
    IF k = 0 THEN {<<>>}
    ELSE {Append(ls, l) : ls \in LineLists(k - 1), l \in LineChoices(k)}

\* the lines with a newline between them
RECURSIVE Join(_)
Join(ls) ==
    IF ls = <<>> THEN <<>>
    ELSE IF Len(ls) = 1 THEN ls[1]
    ELSE ls[1] \o <<NL>> \o Join(Tail(ls))

\* trigger files of 0..MaxLines lines, with and without a final newline
TriggerFiles ==
    {Join(ls) \o t : ls \in UNION {LineLists(k) : k \in 0..MaxLines},
                     t \in {<<>>, <<NL>>}}

\* what the external process writes while the dispatcher runs
GoodRequest == Join(<<<<"b">>, <<"s">>, <<"p">>>>) \o <<NL>>
ShortRequest == Join(<<<<"b">>, <<"s">>>>)
ExtFiles == {GoodRequest, ShortRequest}

BodyText == <<" ", "h", NL>>

ExtWrite ==
    /\ extLeft > 0
    /\ \E f \in ExtFiles :
         /\ f # triggerFile
         /\ triggerFile' = f
    /\ extLeft' = extLeft - 1
    /\ hist' = [hist EXCEPT !.ext = TRUE, !.processed = FALSE]
    /\ UNCHANGED <<entry, pc, exc, interruptAt, hasPage, trace, bodyContent,
                   lines, email_details, i, email_sent>>
    /\ UNCHANGED procVars

ExtRemove ==
    /\ extLeft > 0
    /\ triggerFile # NoFile
    /\ triggerFile' = NoFile
    /\ extLeft' = extLeft - 1
    /\ hist' = [hist EXCEPT !.ext = TRUE]
    /\ UNCHANGED <<entry, pc, exc, interruptAt, hasPage, trace, bodyContent,
                   lines, email_details, i, email_sent>>
    /\ UNCHANGED procVars

\* the body file is created or removed
ExtBody ==
    /\ extLeft > 0
    /\ bodyContent' = IF bodyContent = NoFile THEN BodyText ELSE NoFile
    /\ extLeft' = extLeft - 1
    /\ UNCHANGED <<entry, pc, exc, interruptAt, hasPage, trace, triggerFile,
                   lines, email_details, i, email_sent, hist>>
    /\ UNCHANGED procVars

-----------------------------------------------------------------------------
(* Specifications *)

LoopIdle ==
    /\ triggerFile = NoFile /\ bodyContent = NoFile /\ lines = <<>>
    /\ email_details = NoDetails /\ i = 1 /\ email_sent = Unset
    /\ extLeft = 0 /\ hist = NoHist

\* the process: either entry point, from its first statement
Init ==
    /\ entry \in {"authenticate", "async_main"}
    /\ pc = "start"
    /\ exc = "none" /\ interruptAt = "none"
    /\ config = NoConfig
    /\ handles = NoHandles /\ live = NoResources /\ closeLog = <<>>
    /\ hasPage = FALSE /\ authenticated = Unset /\ trace = <<>>
    /\ LoopIdle

Next ==
    \/ AuthArgs \/ SenderArgs
    \/ SetupPlaywright \/ SetupLaunch \/ SetupContext
    \/ AuthCheckContext
    \/ NewPage \/ Goto \/ FillEmail \/ SubmitEmail \/ Handoff
    \/ WaitPassword \/ FillPassword \/ SubmitPassword
    \/ WaitStay \/ ClickStay \/ WaitMailbox
    \/ AuthReturned \/ Finally
    \/ CloseContext \/ CloseBrowser \/ StopPlaywright
    \/ Interrupt

Spec == Init /\ [][Next]_vars

\* a live session: what setup_browser returns when it succeeds
LiveSession ==
    /\ config = NoConfig /\ authenticated = Unset
    /\ handles = [playwright |-> "obj", browser |-> "obj", context |-> "obj"]
    /\ live = [playwright |-> "open", browser |-> "open", context |-> "open"]
    /\ closeLog = <<>>
    /\ exc = "none" /\ interruptAt = "none"
    /\ trace = <<>>

\* listen_for_email_requests(context, triggerFile), from its first statement
InitListen ==
    /\ entry = "listen"
    /\ pc = "is_file"
    /\ LiveSession
    /\ hasPage \in BOOLEAN
    /\ triggerFile \in TriggerFiles \cup {NoFile}
    /\ bodyContent \in {NoFile, BodyText}
    /\ lines = <<>>
    /\ email_details = NoDetails /\ i = 1 /\ email_sent = Unset
    /\ extLeft = MaxExt
    /\ hist = NoHist

SendSteps ==
    \/ SendStart \/ ClickNew \/ WaitTo \/ FillTo \/ TypeComma \/ PressSpace
    \/ FillSubject \/ PressTab \/ TypeBody \/ PressSend \/ WaitSent

NextListen ==
    \/ IsFile \/ ReadTrigger
    \/ SendSteps
    \/ Sent \/ Sleep
    \/ Cancel
    \/ ExtWrite \/ ExtRemove \/ ExtBody

SpecListen == InitListen /\ [][NextListen]_vars

\* the recipient strings send_email is given
Alphabet == {"a", "b", ",", " "}

\* send_email(context, email_details), from its first statement
InitSend ==
    /\ entry = "send_email"
    /\ pc = "send_start"
    /\ LiveSession
    /\ hasPage \in BOOLEAN
    /\ triggerFile = NoFile /\ lines = <<>>
    /\ bodyContent \in {NoFile, BodyText}
    /\ email_details \in [recipient : Texts(Alphabet, MaxLen),
                          subject : SubjLines,
                          body_file : {BodyPath, <<"q">>}]
    /\ i = 1 /\ email_sent = Unset
    /\ extLeft = 0
    /\ hist = NoHist

NextSend == SendSteps \/ Cancel

SpecSend == InitSend /\ [][NextSend]_vars

-----------------------------------------------------------------------------
(* Claims *)

ToSel == "[aria-label=To]"
SubjectSel == "[placeholder=Add a subject]"
PasswordSel == "input[type=password]"
StaySel == "#idSIButton9"
MailboxSel == "[aria-label=New mail]"

\* t is a beginning of the list of calls cs
IsPrefix(t, cs) ==
    /\ Len(t) <= Len(cs)
    /\ \A j \in 1..Len(t) : Call(t[j]) = cs[j]

\* C1: after a poll iteration that called send_email, with no write of the
\* external process since the is_file() check, the trigger file is gone if
\* send_email returned True, and is there with the content it had at the check
\* if send_email returned False.
C1_DeleteIffSent ==
    (entry = "listen" /\ pc = "sleep" /\ email_sent # Unset /\ ~hist.ext) =>
        /\ email_sent = "True" => triggerFile = NoFile
        /\ email_sent = "False" =>
               triggerFile # NoFile /\ triggerFile = hist.atCheck

\* a well-formed file, with its body file, was sent and removed
C1_Witness ==
    /\ entry = "listen" /\ pc = "sleep" /\ ~hist.ext
    /\ email_sent = "True" /\ triggerFile = NoFile
    /\ hist.atCheck # NoFile /\ Len(readlines(hist.atCheck)) >= 3
    /\ OpenBody(email_details.body_file, bodyContent) # NoFile

\* C2: async_main, started with --email, --password and --notification, builds
\* its OutlookConfig and goes on to the browser setup: it never ends at the
\* construction of the configuration.
C2_SenderBuildsConfig ==
    (entry = "async_main" /\ pc # "start") => (pc # "exit" /\ exc = "none")

\* C3: a poll iteration that read fewer than three lines ended at the parse
\* failure: the loop is at its sleep or at the next is_file() check (or was
\* interrupted in the sleep), the iteration made no UI call, did not call
\* send_email, and left the trigger file as it was at the check.
C3_ShortFileSkipped ==
    (/\ entry = "listen"
     /\ hist.outcome \notin {"none", "absent", "running", "open_failed"}
     /\ Len(lines) < 3) =>
        /\ hist.outcome = "parse_failed"
        /\ pc \in {"sleep", "is_file"} \/ (pc = "raised" /\ interruptAt = "sleep")
        /\ trace = <<>> /\ email_sent = Unset
        /\ ~hist.ext => triggerFile = hist.atCheck

\* a file of two lines failed to parse and is still there
C3_Witness ==
    /\ entry = "listen" /\ pc = "sleep" /\ hist.outcome = "parse_failed"
    /\ Len(lines) = 2 /\ triggerFile # NoFile /\ triggerFile = hist.atCheck
    /\ trace = <<>>

\* the places of the commas of s
Commas(s) == {j \in 1..Len(s) : s[j] = ","}

\* the number of comma-separated addresses of s
NumAddresses(s) == Cardinality(Commas(s)) + 1

\* the place of the k-th comma of s
KthComma(s, k) ==
    CHOOSE j \in Commas(s) : Cardinality({m \in Commas(s) : m < j}) = k - 1

\* the k-th address of s: the text between the commas around it
Address(s, k) ==
    SubSeq(s,
           IF k = 1 THEN 1 ELSE KthComma(s, k - 1) + 1,
           IF k = NumAddresses(s) THEN Len(s) ELSE KthComma(s, k) - 1)

\* C4: once send_email is past the recipient loop, the calls after the click
\* and the wait are, for a recipient string of N addresses: N fills of the To
\* field, the k-th with the trimmed k-th address, each but the last followed
\* by the typing of a comma and the Space key, and the last followed by the
\* fill of the subject.
C4_RecipientFills ==
    (/\ entry = "send_email"
     /\ \/ pc = "fill_subject"
        \/ \E j \in 1..Len(trace) : trace[j].sel = SubjectSel) =>
        LET r == email_details.recipient
            N == NumAddresses(r)
        IN  /\ Len(trace) >= 3 * N
            /\ \A k \in 1..N :
                 /\ Call(trace[3 * k]) = Ui("fill", ToSel, strip(Address(r, k)))
                 /\ trace[3 * k].out = "ok"
            /\ \A k \in 1..(N - 1) :
                 /\ Call(trace[3 * k + 1]) = Ui("type", "keyboard", <<",">>)
                 /\ Call(trace[3 * k + 2]) = Ui("press", "Space", <<>>)
            /\ Cardinality({j \in 1..Len(trace) :
                              trace[j].act = "fill" /\ trace[j].sel = ToSel}) = N
            /\ Len(trace) > 3 * N =>
                 Call(trace[3 * N + 1]) =
                     Ui("fill", SubjectSel, strip(email_details.subject))

\* "a,b" was sent: two fills
C4_Witness ==
    /\ entry = "send_email" /\ pc = "done" /\ email_sent = "True"
    /\ email_details.recipient = <<"a", ",", "b">>
    /\ Call(trace[3]) = Ui("fill", ToSel, <<"a">>)
    /\ Call(trace[6]) = Ui("fill", ToSel, <<"b">>)

\* the calls of authenticate_outlook when the username is not empty
HandoffCalls(cfg) ==
    << Ui("new_page", "", <<>>),
       Ui("goto", cfg.outlook_url, <<>>),
       Ui("fill", "input[type=email]", cfg.email),
       Ui("click", "input[type=submit]", <<>>),
       Ui("log", "manual authentication", <<>>),
       Ui("wait", MailboxSel, <<>>) >>

\* C5: with a non-empty username the calls of authenticate_outlook are a
\* beginning of: new page, goto, fill email, submit, the hand-off log line,
\* the wait for the mailbox landmark.  No call is made on the password field
\* or on the "stay signed in" button.
C5_NoPasswordWithUsername ==
    (entry = "authenticate" /\ pc # "start" /\ config.username # <<>>) =>
        /\ IsPrefix(trace, HandoffCalls(config))
        /\ \A j \in 1..Len(trace) : trace[j].sel \notin {PasswordSel, StaySel}

\* a hand-off run that reached the mailbox
C5_Witness ==
    /\ entry = "authenticate" /\ pc = "exit"
    /\ config.username # <<>>
    /\ authenticated = "True" /\ Len(trace) = 6

LoopStep == IsFile \/ ReadTrigger \/ SendSteps \/ Sent \/ Sleep

IterationEnded ==
    hist.outcome \in {"absent", "open_failed", "parse_failed", "send_failed",
                      "removed", "remove_failed"}

\* C7: the loop ends only by an interrupt; in every other state the dispatcher
\* has a next step; and however a poll iteration ended (nothing found, open or
\* parse failure, send returned False, file removed, removal failed), the loop
\* is at its sleep or at the is_file() check that follows it.
C7_BackToWatching ==
    entry = "listen" =>
        /\ pc = "raised" =>
               (exc = "CancelledError" /\ interruptAt \in SendAwaits \cup {"sleep"})
        /\ pc # "raised" => ENABLED LoopStep
        /\ IterationEnded =>
               \/ pc \in {"sleep", "is_file"}
               \/ pc = "raised" /\ interruptAt = "sleep"

\* the removal failed after a successful send, and the loop polls again
C7_Witness ==
    /\ entry = "listen" /\ pc = "is_file"
    /\ hist.outcome = "remove_failed" /\ email_sent = "True"

\* a call that did not complete, other than a timeout at the prompt `what`
FailedOutside(e, what) ==
    e.out # "ok" /\ ~(e.sel = StaySel /\ e.act \in what /\ e.out = "timeout")

\* authenticate_outlook returned True after the mailbox wait only, and False
\* when a call failed other than by a timeout of a call in `what`
ReturnsBy(what) ==
    /\ authenticated = "True" =>
           /\ trace # <<>>
           /\ Call(trace[Len(trace)]) = Ui("wait", MailboxSel, <<>>)
           /\ trace[Len(trace)].out = "ok"
    /\ (authenticated # Unset
        /\ \E j \in 1..Len(trace) : FailedOutside(trace[j], what)) =>
           authenticated = "False"

\* C8 as stated, for the failures of steps: True only after the mailbox wait,
\* and False whenever a step failed, the click on "stay signed in" included
\* (only a timeout of the wait for it is let through).
C8_Original == entry = "authenticate" => ReturnsBy({"wait"})

\* C8 amended: True only after the mailbox wait as the last step; False
\* whenever a step failed, except a timeout of the wait for, or of the click
\* on, "stay signed in"; and authenticate_outlook is left without a return
\* value only by the CancelledError of an external interrupt.
C8_FailureReturnsFalse ==
    entry = "authenticate" =>
        /\ ReturnsBy({"wait", "click"})
        /\ (pc \in {"finally", "exit"} \cup CleanupAwaits
            /\ handles.context # "None"
            /\ authenticated = Unset) =>
               (exc = "CancelledError" /\ interruptAt # "none")

\* the click on "stay signed in" timed out and authentication succeeded
C8_Witness ==
    /\ entry = "authenticate" /\ authenticated = "True"
    /\ \E j \in 1..Len(trace) :
         trace[j].sel = StaySel /\ trace[j].act = "click" /\ trace[j].out = "timeout"

\* C9: when the wait for "stay signed in" timed out, no click on it is made,
\* the next call is the wait for the mailbox landmark, and the result is True
\* exactly when that wait completed.
C9_StayTimeoutIgnored ==
    entry = "authenticate" =>
        \A j \in 1..Len(trace) :
            (trace[j].sel = StaySel /\ trace[j].act = "wait"
             /\ trace[j].out = "timeout") =>
                /\ \A m \in 1..Len(trace) :
                     ~(trace[m].sel = StaySel /\ trace[m].act = "click")
                /\ IF Len(trace) > j
                   THEN /\ Len(trace) = j + 1
                        /\ Call(trace[j + 1]) = Ui("wait", MailboxSel, <<>>)
                        /\ authenticated =
                               IF trace[j + 1].out = "ok" THEN "True" ELSE "False"
                   ELSE /\ authenticated = Unset
                        /\ pc = "wait_mailbox" \/ interruptAt = "wait_mailbox"

\* the prompt never came and the mailbox did
C9_Witness ==
    /\ entry = "authenticate" /\ authenticated = "True"
    /\ \E j \in 1..Len(trace) :
         trace[j].sel = StaySel /\ trace[j].act = "wait" /\ trace[j].out = "timeout"

\* C10: after a request was sent and its trigger file removed, and until the
\* external process writes a new one, the file is absent and the dispatcher
\* is never in send_email: every later poll finds nothing and makes no UI call.
C10_ProcessedOnce ==
    (entry = "listen" /\ hist.processed) =>
        /\ triggerFile = NoFile
        /\ pc \in {"sleep", "is_file", "raised"}
        /\ hist.outcome \in {"removed", "absent"}
        /\ hist.outcome = "absent" => (trace = <<>> /\ email_sent = Unset)

\* a poll after the processed request found nothing
C10_Witness ==
    /\ entry = "listen" /\ pc = "sleep"
    /\ hist.processed /\ hist.outcome = "absent" /\ trace = <<>>

\* C11: a poll iteration that finds no regular file at the trigger path does
\* nothing but sleep: the check goes straight to the sleep, leaving the last
\* lines read, the request details, the file system and the exception state
\* as they were, with no UI call made and no send result; from there the loop
\* sleeps and checks again, and only an interrupt of the sleep can raise.
C11_AbsentStep ==
    (pc = "is_file" /\ triggerFile = NoFile /\ pc' # pc)
        => /\ pc' = "sleep"
           /\ trace' = <<>> /\ email_sent' = Unset
           /\ lines' = lines /\ email_details' = email_details
           /\ triggerFile' = NoFile /\ bodyContent' = bodyContent
           /\ exc' = exc /\ hist'.outcome = "absent"

C11_AbsentState ==
    hist.outcome = "absent"
        => /\ trace = <<>> /\ email_sent = Unset
           /\ \/ pc \in {"sleep", "is_file"}
              \/ pc = "raised" /\ interruptAt = "sleep"
           /\ pc \in {"sleep", "is_file"} => exc = "none" /\ ENABLED LoopStep

C11_AbsentNoAction == []C11_AbsentState /\ [][C11_AbsentStep]_vars

\* the file was absent at the check, the loop slept and is checking again
C11_Witness ==
    /\ pc = "is_file" /\ hist.outcome = "absent" /\ hist.atCheck = NoFile
    /\ ~hist.processed /\ interruptAt = "none"

\* the program counters of listen_for_email_requests and of the send it awaits
ListenPcs == {"is_file", "read", "send_start", "sent", "sleep"} \cup SendAwaits

\* the program counters inside authenticate_outlook
AuthPcs == AuthAwaits \cup {"handoff"}

SendPcs == SendAwaits \cup {"send_start"}

\* C14: one request in flight at most.  A send is started only by the read of
\* the trigger file that precedes it, never from inside a send; while a send
\* is in progress the dispatcher neither checks nor reads the trigger file,
\* keeps the request it read, and leaves the send only by its return or by an
\* interrupt; each check of the file follows a sleep and each read a check.
C14_Step ==
    /\ pc' # pc =>
           /\ pc' = "send_start" => pc = "read"
           /\ pc' = "read" => pc = "is_file"
           /\ pc' = "is_file" => pc = "sleep"
           /\ pc \in SendPcs =>
                  pc' \in (SendAwaits \cup {"sent", "raised"})
    /\ pc \in SendPcs =>
           /\ lines' = lines /\ email_details' = email_details
           /\ hist'.atCheck = hist.atCheck

C14_OneInFlight == [][C14_Step]_vars

\* a new request is written by another process while a send is in progress
C14_Witness ==
    /\ entry = "listen" /\ pc \in SendAwaits /\ trace # <<>>
    /\ hist.ext /\ triggerFile # NoFile /\ triggerFile # hist.atCheck
    /\ readlines(triggerFile) # lines

\* the dispatcher started on a request of three lines, under a scheduler that
\* resumes it: the event loop runs the one coroutine whenever its awaited call
\* or its sleep has completed
InitRetry ==
    /\ InitListen
    /\ triggerFile # NoFile
    /\ Len(readlines(triggerFile)) = 3 /\ triggerFile[Len(triggerFile)] # NL

SpecRetry == InitRetry /\ [][NextListen]_vars /\ WF_vars(LoopStep)

\* a request of three lines or more whose body file is missing
MissingBody(f) ==
    /\ f # NoFile /\ Len(readlines(f)) >= 3
    /\ OpenBody(strip(readlines(f)[3]), bodyContent) = NoFile

\* send_email has returned False and the request with the missing body is there
FailedAttempt ==
    pc = "sent" /\ email_sent = "False" /\ MissingBody(triggerFile)

C15_Step ==
    (pc' # pc /\ pc' # "raised") =>
        /\ (pc = "type_body"
            /\ OpenBody(email_details.body_file, bodyContent) = NoFile)
               => /\ pc' = "sent" /\ email_sent' = "False"
                  /\ trace' = trace /\ triggerFile' = triggerFile
        /\ (pc = "sent" /\ email_sent = "False")
               => /\ pc' = "sleep" /\ triggerFile' = triggerFile
                  /\ hist'.outcome = "send_failed"
        /\ (pc = "sent" /\ email_sent = "True" /\ triggerFile # NoFile)
               => pc' = "sleep" /\ triggerFile' = NoFile

\* C15: a request whose body file is missing is retried without end.  The read
\* of the missing body file makes send_email return False with no further UI
\* call, and after a False the trigger file is left as it is; after a True
\* the file is removed.  A poll that finds such a request leads to a failed
\* send, and a failed send to the next poll of the same file, for as long as
\* no other process changes the files and no interrupt ends the loop: no count
\* of attempts stops it.
C15_RetriedEveryCycle ==
    /\ [][C15_Step]_vars
    /\ (pc = "is_file" /\ MissingBody(triggerFile))
           ~> (pc = "raised" \/ ~MissingBody(triggerFile) \/ FailedAttempt)
    /\ FailedAttempt
           ~> (pc = "raised" \/ ~MissingBody(triggerFile)
               \/ (pc = "is_file" /\ hist.outcome = "send_failed"))

\* a failed attempt on a request that no other process has touched: the UI
\* steps up to the Tab were made and the read of the body failed
C15_Witness ==
    /\ entry = "listen" /\ FailedAttempt /\ hasPage
    /\ hist.atCheck = triggerFile /\ ~hist.ext /\ extLeft = MaxExt
    /\ trace # <<>> /\ trace[Len(trace)] = Done(Ui("press", "Tab", <<>>), "ok")

SentSel == "#EmptyState_MainMessage"

\* the body file of request d can be read
BodyReadable(d) == d.body_file = <<"p">> /\ bodyContent # NoFile

\* the calls of a complete send_email for request d, in order; they stop after
\* the Tab when the body file cannot be read
SendPlan(d) ==
    LET r == d.recipient
        N == NumAddresses(r)
        to == [j \in 1..(3 * N - 2) |->
                 CASE j % 3 = 1 ->
                          Ui("fill", ToSel, strip(Address(r, (j + 2) \div 3)))
                   [] j % 3 = 2 -> Ui("type", "keyboard", <<",">>)
                   [] OTHER -> Ui("press", "Space", <<>>)]
    IN  <<Ui("click", MailboxSel, <<>>), Ui("wait", ToSel, <<>>)>>
        \o to
        \o <<Ui("fill", SubjectSel, strip(d.subject)), Ui("press", "Tab", <<>>)>>
        \o (IF BodyReadable(d)
            THEN <<Ui("type", "keyboard", strip(bodyContent)),
                   Ui("press", "Control+Enter", <<>>),
                   Ui("wait", SentSel, <<>>)>>
            ELSE <<>>)

\* C16: the calls send_email has made are a beginning of the fixed list (click
\* compose, wait for To, the recipient fills, the trimmed subject, Tab, the
\* trimmed body, Control+Enter, the wait for the sent landmark), each made
\* after the one before it completed; the result is True only when the whole
\* list was made and the landmark wait, its last call, completed; a call that
\* failed is the last one made and the result is False; with an unreadable
\* body file no Control+Enter is pressed and the result is False; and nothing
\* but the cancellation of an interrupt leaves the function as an exception.
C16_FixedOrder ==
    entry = "send_email" =>
        LET plan == SendPlan(email_details)
            n == Len(trace)
        IN  /\ IsPrefix(trace, plan)
            /\ \A j \in 1..(n - 1) : trace[j].out = "ok"
            /\ email_sent = "True" =>
                   /\ pc = "done" /\ BodyReadable(email_details)
                   /\ n = Len(plan) /\ trace[n].out = "ok"
                   /\ Call(trace[n]) = Ui("wait", SentSel, <<>>)
                   /\ Call(trace[n - 1]) = Ui("press", "Control+Enter", <<>>)
            /\ pc = "done" =>
                   /\ email_sent \in {"True", "False"}
                   /\ email_sent = "False" <=>
                          \/ ~hasPage
                          \/ n > 0 /\ trace[n].out # "ok"
                          \/ ~BodyReadable(email_details)
            /\ ~BodyReadable(email_details) =>
                   /\ \A j \in 1..n : trace[j].sel # "Control+Enter"
                   /\ email_sent # "True"
            /\ pc \notin {"done", "raised"} =>
                   email_sent = Unset /\ (n > 0 => trace[n].out = "ok")
            /\ pc = "raised" =>
                   exc = "CancelledError" /\ interruptAt \in SendAwaits
            /\ pc # "raised" => exc = "none"

\* the body file is missing: send_email returned False after the Tab
C16_Witness ==
    /\ entry = "send_email" /\ pc = "done" /\ email_sent = "False"
    /\ email_details.body_file = <<"p">> /\ bodyContent = NoFile
    /\ trace # <<>> /\ trace[Len(trace)] = Done(Ui("press", "Tab", <<>>), "ok")
    /\ NumAddresses(email_details.recipient) = 2

\* C17: when the process has ended without an interrupt, nothing that
\* setup_browser acquired is still open: the driver, the browser and the
\* context are each either never started or closed.
C17_NothingLeftOpen ==
    (pc = "exit" /\ interruptAt = "none" /\ exc = "none")
        => \A r \in DOMAIN live : live[r] # "open"

C18_Step ==
    (pc \in {"read", "sent"} /\ triggerFile = NoFile /\ pc' # pc)
        => /\ pc' = "sleep" /\ exc' = "none" /\ triggerFile' = NoFile
           /\ hist'.outcome \in {"open_failed", "remove_failed", "send_failed"}

C18_State ==
    /\ hist.outcome \in {"open_failed", "remove_failed"}
           => /\ hist.ext /\ hist.atCheck # NoFile
              /\ \/ pc \in {"sleep", "is_file"} /\ exc = "none"
                 \/ pc = "raised" /\ interruptAt = "sleep"
    /\ (triggerFile = NoFile /\ hist.ext /\ pc # "raised")
           => exc = "none" /\ ENABLED LoopStep
    /\ exc # "none" => exc = "CancelledError" /\ interruptAt # "none"

\* C18: the removal of the trigger file by another process never ends the
\* loop.  When the file is gone at the read (removed after the check) the open
\* fails, and when it is gone at the deletion (removed during or after the
\* send) os.remove fails: both go to the sleep with no exception set; a send
\* in progress goes on; in every such state the dispatcher has a next step,
\* and the only exception that leaves the function is the cancellation of an
\* interrupt.
C18_RemovalAbsorbed == []C18_State /\ [][C18_Step]_vars

\* the file was there at the check and gone at the read; the loop is sleeping
C18_Witness ==
    /\ entry = "listen" /\ pc = "sleep" /\ hist.outcome = "open_failed"
    /\ hist.atCheck # NoFile /\ triggerFile = NoFile /\ exc = "none"

\* C19: the file that the deletion after a successful send removes holds the
\* request that was read and sent in this iteration.
C19_Step ==
    (pc = "sent" /\ pc' = "sleep" /\ triggerFile # NoFile /\ triggerFile' = NoFile)
        => readlines(triggerFile) = lines

C19_RemovesWhatWasSent == [][C19_Step]_vars

====
